---- MODULE Spec2Model ----
(***************************************************************************)
(* Model of the market intelligence agent's tool server (src/1.py).        *)
(*                                                                         *)
(* Strings are sequences.  URLs handed to extract_video_id are sequences   *)
(* of one-character strings, because the regular expression works on       *)
(* characters.  Every other text is a sequence of chunks: each chunk is a  *)
(* run of characters that no operation of the program cuts (a "/" is       *)
(* always a chunk of its own in a link, a whitespace character is always a *)
(* chunk of its own in a transcript, the marker "[!]" is a chunk).         *)
(***************************************************************************)
EXTENDS Integers, Sequences, FiniteSets, TLC

VARIABLES pc, tool, args, loc, calls, result, thread, env, memory, nextSession, stubs

vars == <<pc, tool, args, loc, calls, result, thread, env, memory, nextSession, stubs>>

(* ------------------------------ bounds --------------------------------- *)

MaxPathLen == 4
MaxFrags == 2
MaxEntries == 2

\* the invocations the server may have in hand at once
Tasks == {1, 2}

(* ------------------------- string primitives --------------------------- *)

\* Python's None for a str-typed value that is only tested with `not x`.
None == <<>>

\* str.startswith
StartsWith(s, p) == Len(s) >= Len(p) /\ SubSeq(s, 1, Len(p)) = p

IsSpace(c) == c \in {" ", "\n", "\t"}

RECURSIVE LStrip(_)
LStrip(s) == IF s # <<>> /\ IsSpace(Head(s)) THEN LStrip(Tail(s)) ELSE s

RECURSIVE RStrip(_)
RStrip(s) ==
    IF s # <<>> /\ IsSpace(s[Len(s)]) THEN RStrip(SubSeq(s, 1, Len(s) - 1)) ELSE s

\* str.strip() with no argument: whitespace off both ends
Strip(s) == RStrip(LStrip(s))

\* sep.join(list)
RECURSIVE Join(_, _)
Join(sep, list) ==
    IF list = <<>> THEN <<>>
    ELSE IF Len(list) = 1 THEN list[1]
    ELSE list[1] \o sep \o Join(sep, Tail(list))

\* str.strip("/"): slashes off both ends
RECURSIVE StripSlashes(_)
StripSlashes(s) ==
    IF s # <<>> /\ Head(s) = "/" THEN StripSlashes(Tail(s))
    ELSE IF s # <<>> /\ s[Len(s)] = "/" THEN StripSlashes(SubSeq(s, 1, Len(s) - 1))
    ELSE s

\* str.split("/"): always at least one part, empty parts kept
RECURSIVE SplitSlash(_)
SplitSlash(s) ==
    IF \A k \in 1..Len(s) : s[k] # "/" THEN <<s>>
    ELSE LET k == CHOOSE k \in 1..Len(s) :
                      s[k] = "/" /\ \A j \in 1..(k - 1) : s[j] # "/"
         IN <<SubSeq(s, 1, k - 1)>> \o SplitSlash(SubSeq(s, k + 1, Len(s)))

(* ------------------------- extract_video_id ---------------------------- *)

Lowers == {"a", "b", "c", "d", "e", "f", "g", "h", "i", "j", "k", "l", "m",
           "n", "o", "p", "q", "r", "s", "t", "u", "v", "w", "x", "y", "z"}
Uppers == {"A", "B", "C", "D", "E", "F", "G", "H", "I", "J", "K", "L", "M",
           "N", "O", "P", "Q", "R", "S", "T", "U", "V", "W", "X", "Y", "Z"}
Digits == {"0", "1", "2", "3", "4", "5", "6", "7", "8", "9"}

\* the character class [0-9A-Za-z_-]
IsIdChar(c) == c \in Digits \cup Uppers \cup Lowers \cup {"_", "-"}

\* the repetition count {11} of the capture group
IdLen == 11

\* length of the non-capturing alternative (?:v=|\/) matching at position p,
\* 0 when neither alternative matches there
LeadLen(url, p) ==
    IF p + 1 <= Len(url) /\ url[p] = "v" /\ url[p + 1] = "=" THEN 2
    ELSE IF url[p] = "/" THEN 1
    ELSE 0

\* the whole pattern matches starting at position p
MatchesAt(url, p) ==
    LET k == LeadLen(url, p)
    IN /\ k > 0
       /\ p + k + IdLen - 1 <= Len(url)
       /\ \A q \in (p + k)..(p + k + IdLen - 1) : IsIdChar(url[q])

\* re.search returns the leftmost match; group(1) is the 11 characters
extract_video_id(url) ==
    LET hits == {p \in 1..Len(url) : MatchesAt(url, p)}
    IN IF hits = {} THEN None
       ELSE LET p == CHOOSE p \in hits : \A q \in hits : p <= q
                k == LeadLen(url, p)
            IN SubSeq(url, p + k, p + k + IdLen - 1)

(* ------------------------------ urlparse ------------------------------- *)

\* s up to (excluding) the first chunk that is in stops
RECURSIVE UpTo(_, _)
UpTo(s, stops) ==
    IF s = <<>> \/ Head(s) \in stops THEN <<>>
    ELSE <<Head(s)>> \o UpTo(Tail(s), stops)

\* urlsplit: a leading scheme chunk ("https:") is taken off
AfterScheme(link) ==
    IF link # <<>> /\ Head(link) \in {"https:", "http:"} THEN Tail(link) ELSE link

\* urlsplit: after "//" the network location runs to the first of / ? #
AfterNetloc(rest) ==
    IF Len(rest) >= 2 /\ rest[1] = "/" /\ rest[2] = "/"
    THEN LET r == SubSeq(rest, 3, Len(rest))
             n == UpTo(r, {"/", "?", "#"})
         IN SubSeq(r, Len(n) + 1, Len(r))
    ELSE rest

\* urlparse(link).path: what is left, cut at the first # and then the first ?
UrlPath(link) == UpTo(UpTo(AfterNetloc(AfterScheme(link)), {"#"}), {"?"})

(* ------------------------------- inputs -------------------------------- *)

\* all sequences over S of length at most n
SeqUpTo(S, n) == UNION {[1..k -> S] : k \in 0..n}

Http == <<"h", "t", "t", "p">>
SchemeHttps == <<"h", "t", "t", "p", "s", ":", "/", "/">>
HostWww == <<"w", "w", "w", ".", "y", "o", "u", "t", "u", "b", "e", ".", "c", "o", "m">>
HostShort == <<"y", "o", "u", "t", "u", ".", "b", "e">>
HostNoCookie == <<"y", "o", "u", "t", "u", "b", "e", "-", "n", "o", "c", "o", "o", "k",
                  "i", "e", ".", "c", "o", "m">>
FormWatch == <<"/", "w", "a", "t", "c", "h", "?", "v", "=">>
FormBare == <<"/">>
FormEmbed == <<"/", "e", "m", "b", "e", "d", "/">>
FormShare == <<"/", "w", "a", "t", "c", "h", "?", "f", "e", "a", "t", "u", "r", "e", "=",
               "s", "h", "a", "r", "e", "&", "v", "=">>
IdRick == <<"d", "Q", "w", "4", "w", "9", "W", "g", "X", "c", "Q">>
IdOther == <<"a", "_", "b", "-", "c", "_", "d", "-", "e", "_", "f">>
QueryCats == <<"c", "a", "t", "s">>

VideoHosts == {HostWww, HostShort, HostNoCookie}
VideoForms == {FormWatch, FormBare, FormEmbed, FormShare}
VideoIds == {IdRick, IdOther}

\* well-formed video URLs, each with the id token it was built around
VideoUrlCases ==
    {[url |-> SchemeHttps \o h \o f \o v, id |-> v] :
        h \in VideoHosts, f \in VideoForms, v \in VideoIds}

\* URLs that hold no 11-character id token
IdlessUrls == {SchemeHttps \o HostShort \o FormBare,
               SchemeHttps \o HostWww \o FormWatch \o <<"a", "b", "c">>}

VideoInputs == {c.url : c \in VideoUrlCases} \cup IdlessUrls \cup {QueryCats}

Questions == {<<"What is this about?">>, <<"Who is speaking?">>}

PageUrls == {<<"https://example.com">>}
Pages == {<<"Acme sells anvils.">>, <<>>}

LinkPrefixes == {<<>>, <<"https:", "/", "/", "linkedin.com">>}
LinkSuffixes == {<<>>, <<"?", "trk">>}
PathChunks == {"/", "company", "in", "school", "acme"}

LinkInputs ==
    {p \o q \o r : p \in LinkPrefixes, q \in SeqUpTo(PathChunks, MaxPathLen),
                   r \in LinkSuffixes}

InputTexts == {<<"Acme sells anvils.">>, <<"[!]", " ", "No video found.">>}

Tools == {"analyze_website", "ask_youtube_question", "analyze_linkedin",
          "structured_tool"}

NoArgs == [url |-> <<>>, question |-> <<>>]

ArgsOf(t) ==
    CASE t = "analyze_website" ->
            {[url |-> u, question |-> q] : u \in PageUrls, q \in Questions}
      [] t = "ask_youtube_question" ->
            {[url |-> u, question |-> q] : u \in VideoInputs, q \in Questions}
      [] t = "analyze_linkedin" ->
            {[url |-> u, question |-> <<>>] : u \in LinkInputs}
      [] t = "structured_tool" ->
            {[url |-> u, question |-> <<>>] : u \in InputTexts}

(* -------------------------- provider behaviour ------------------------- *)

\* str(e) of the exception a provider call may raise
ExcMsgs == {<<"Subtitles are disabled for this video">>, <<"connection reset">>}

\* text the model provider may answer with
Responses == {<<"It's about greetings.">>, <<"Understood.">>}

\* caption fragments: dicts that may or may not hold the key "text"
FragTexts == {<<" ">>, <<"hello", " ", "world">>, <<"[!]", " ", "intro">>}
Fragments == {[keys |-> {"text"}, text |-> x] : x \in FragTexts}
                 \cup {[keys |-> {}, text |-> <<>>]}

\* what YouTubeTranscriptApi.get_transcript may do
TranscriptOutcomes ==
    {[kind |-> "threw", reason |-> e, frags |-> <<>>] : e \in ExcMsgs}
        \cup {[kind |-> "list", reason |-> <<>>, frags |-> f] :
                 f \in SeqUpTo(Fragments, MaxFrags)}

NoFetch == [kind |-> "none", reason |-> <<>>, frags |-> <<>>]

\* what ydl.extract_info may do: raise, return a search result with an
\* 'entries' list, or return a single video (no 'entries' key)
Videos == {[title |-> <<"Cats">>, id |-> v] : v \in VideoIds}
SearchOutcomes ==
    {[kind |-> "threw", reason |-> e, entries |-> <<>>] : e \in ExcMsgs}
        \cup {[kind |-> "entries", reason |-> <<>>, entries |-> es] :
                 es \in SeqUpTo(Videos, MaxEntries)}
        \cup {[kind |-> "single", reason |-> <<>>, entries |-> <<v>>] : v \in Videos}

\* what requests.get may do: raise, or answer with a status and a body;
\* json is the parsed body when the body is JSON
HttpBodies == {[text |-> <<"not found">>, is_json |-> FALSE, repr |-> <<>>],
               [text |-> <<"{\"name\": \"acme\"}">>, is_json |-> TRUE,
                repr |-> <<"{'name': 'acme'}">>]}
StatusCodes == {200, 404, 500}
HttpOutcomes ==
    {[kind |-> "threw", reason |-> e, status |-> 0, body |-> b] :
        e \in ExcMsgs, b \in {CHOOSE b \in HttpBodies : ~b.is_json}}
        \cup {[kind |-> "response", reason |-> <<>>, status |-> c, body |-> b] :
                 c \in StatusCodes, b \in HttpBodies}

\* what the scraping provider and the model provider may do
TextOutcomes(texts) ==
    {[kind |-> "threw", reason |-> e, text |-> <<>>] : e \in ExcMsgs}
        \cup {[kind |-> "text", reason |-> <<>>, text |-> t] : t \in texts}

\* The providers answer as they please ("any": every outcome above), or are
\* stubbed with one failing and one or two succeeding outcomes ("stubbed").
OneExc == <<"connection reset">>
TranscriptStub(s) ==
    IF s = "any" THEN TranscriptOutcomes
    ELSE {[kind |-> "threw", reason |-> OneExc, frags |-> <<>>],
          [kind |-> "list", reason |-> <<>>,
           frags |-> <<[keys |-> {"text"}, text |-> <<"hello", " ", "world">>]>>]}
SearchStub(s) ==
    IF s = "any" THEN SearchOutcomes
    ELSE {[kind |-> "threw", reason |-> OneExc, entries |-> <<>>],
          [kind |-> "entries", reason |-> <<>>, entries |-> <<>>],
          [kind |-> "entries", reason |-> <<>>,
           entries |-> <<[title |-> <<"Cats">>, id |-> IdOther]>>]}
HttpStub(s) ==
    IF s = "any" THEN HttpOutcomes
    ELSE {o \in HttpOutcomes :
             /\ o.reason \in {<<>>, OneExc}
             /\ o.status \in {0, 200, 404}}
ModelStub(s) ==
    IF s = "any" THEN TextOutcomes(Responses)
    ELSE {o \in TextOutcomes(Responses) :
             o.reason \in {<<>>, OneExc} /\ o.text \in {<<>>, <<"It's about greetings.">>}}
ScrapeStub(s) ==
    IF s = "any" THEN TextOutcomes(Pages)
    ELSE {o \in TextOutcomes(Pages) :
             o.reason \in {<<>>, OneExc} /\ o.text \in {<<>>, <<"Acme sells anvils.">>}}

(* ------------------------ the tools' pure parts ------------------------ *)

\* t.get("text", "")
FragGet(t) == IF "text" \in t.keys THEN t.text ELSE <<>>

MarkerToken == <<"[!]">>

\* get_transcript_text with an except clause that gives up silently
get_transcript_text_silent(o) ==
    IF o.kind = "threw" THEN <<>>
    ELSE Strip(Join(<<"\n">>, [k \in 1..Len(o.frags) |-> FragGet(o.frags[k])]))

get_transcript_text(o) ==
    IF o.kind = "threw"
    THEN <<"[!]", " ", "Transcript not available.", "\n", "Reason: ">> \o o.reason
    ELSE Strip(Join(<<"\n">>, [k \in 1..Len(o.frags) |-> FragGet(o.frags[k])]))

\* scrap_videos with max_results = 1, for a search that did not raise
scrap_videos(o) ==
    LET videos == SubSeq(o.entries, 1, IF Len(o.entries) < 1 THEN Len(o.entries) ELSE 1)
    IN [k \in 1..Len(videos) |->
           [title |-> videos[k].title,
            url |-> SchemeHttps \o HostWww \o FormWatch \o videos[k].id,
            video_id |-> videos[k].id]]

\* the first turn get_llm_chain sends
PrimingInput(transcript) ==
    <<"This is the transcript of a YouTube video:", "\n", "\n">> \o transcript
        \o <<"\n", "\n", "Now I'll ask you questions about it.">>

WebsitePrompt(context, question) ==
    <<"You are an experienced market analyst. Based on the content of the website below, answer the following question.",
      "Website Content:">> \o context \o <<"Question: ">> \o question

StructuredPrompt(input_data) ==
    <<"You are a data processing agent.", "Input Data:">> \o input_data
        \o <<"Please analyze the content and structure your response.">>

NoParams == [api_key |-> <<>>, type |-> "", linkId |-> <<>>, private |-> ""]

\* analyze_linkedin with a resolution that takes every link type other than
\* "company" for a profile
LinkedinResolveGuessing(link, key) ==
    LET path_parts == SplitSlash(StripSlashes(UrlPath(link)))
    IN IF key = <<>>
       THEN [kind |-> "return", params |-> NoParams,
             value |-> <<"API key not found. Please check your .env file.">>]
       ELSE IF Len(path_parts) < 2
       THEN [kind |-> "return", params |-> NoParams, value |-> <<"Invalid LinkedIn URL.">>]
       ELSE IF path_parts[1] = <<"company">>
       THEN [kind |-> "request", value |-> <<>>,
             params |-> [api_key |-> key, type |-> "company",
                         linkId |-> path_parts[2], private |-> "false"]]
       ELSE [kind |-> "request", value |-> <<>>,
             params |-> [api_key |-> key, type |-> "profile",
                         linkId |-> path_parts[2], private |-> "true"]]

\* analyze_linkedin up to the point where the request is built
LinkedinResolve(link, key) ==
    LET path_parts == SplitSlash(StripSlashes(UrlPath(link)))
    IN IF key = <<>>
       THEN [kind |-> "return", params |-> NoParams,
             value |-> <<"API key not found. Please check your .env file.">>]
       ELSE IF Len(path_parts) < 2
       THEN [kind |-> "return", params |-> NoParams, value |-> <<"Invalid LinkedIn URL.">>]
       ELSE IF path_parts[1] = <<"company">>
       THEN [kind |-> "request", value |-> <<>>,
             params |-> [api_key |-> key, type |-> "company",
                         linkId |-> path_parts[2], private |-> "false"]]
       ELSE IF path_parts[1] = <<"in">>
       THEN [kind |-> "request", value |-> <<>>,
             params |-> [api_key |-> key, type |-> "profile",
                         linkId |-> path_parts[2], private |-> "true"]]
       ELSE [kind |-> "return", params |-> NoParams,
             value |-> <<"Unsupported LinkedIn link type.">>]

\* analyze_linkedin after the response arrived: the value returned, or the
\* exception response.json() raises on a body that is not JSON
LinkedinAnswer(o) ==
    IF o.status = 200
    THEN IF o.body.is_json
         THEN [kind |-> "return", value |-> <<"LinkedIn Data:", "\n", "\n">> \o o.body.repr]
         ELSE [kind |-> "raise", value |-> <<"JSONDecodeError">>]
    ELSE [kind |-> "return",
          value |-> <<"Request failed. Status: ", ToString(o.status), ", Message: ">>
                        \o o.body.text]

(* -------------------------------- state -------------------------------- *)

NoResult == [kind |-> "none", value |-> <<>>]
NoSearch == [kind |-> "none", reason |-> <<>>, entries |-> <<>>]
NoHttp == [kind |-> "none", reason |-> <<>>, status |-> 0,
           body |-> [text |-> <<>>, is_json |-> FALSE, repr |-> <<>>]]

\* an invocation's local variables (video_id, transcript, session, params),
\* and what its providers did: searched, fetched and http are the outcomes of
\* the search, the transcript fetch and the HTTP GET, fault is the provider
\* whose call raised
NoLoc == [video_id |-> <<>>, transcript |-> <<>>, session |-> 0, params |-> NoParams,
          searched |-> NoSearch, fetched |-> NoFetch, http |-> NoHttp, fault |-> "none"]

Returned(v) == [kind |-> "return", value |-> v]
Raised(e) == [kind |-> "raise", value |-> e]

\* one entry of the record of provider calls an invocation made
CallRec(provider, session, history, input, params) ==
    [provider |-> provider, session |-> session, history |-> history,
     input |-> input, params |-> params]

EnvKeys == {<<>>, <<"sd-key">>}

Boot ==
    /\ pc = [i \in Tasks |-> "idle"]
    /\ tool = [i \in Tasks |-> "none"]
    /\ args = [i \in Tasks |-> NoArgs]
    /\ loc = [i \in Tasks |-> NoLoc]
    /\ calls = [i \in Tasks |-> <<>>]
    /\ result = [i \in Tasks |-> NoResult]
    /\ memory = [i \in Tasks |-> <<>>]
    /\ thread = 0
    /\ nextSession = 1
    /\ env \in {[SCRAPINGDOG_API_KEY |-> k] : k \in EnvKeys}

Init == Boot /\ stubs = "any"

\* the server started against stubbed providers
InitLoop == Boot /\ stubs = "stubbed"

\* the invocation ends: its coroutine returns or raises, releasing the thread
Finish(i, r) ==
    /\ pc' = [pc EXCEPT ![i] = "done"]
    /\ result' = [result EXCEPT ![i] = r]
    /\ thread' = 0

\* a tool call arrives while the server is otherwise idle
Call(i) ==
    /\ \A j \in Tasks : pc[j] = "idle"
    /\ \E t \in Tools : \E a \in ArgsOf(t) :
          /\ tool' = [tool EXCEPT ![i] = t]
          /\ args' = [args EXCEPT ![i] = a]
    /\ pc' = [pc EXCEPT ![i] = "called"]
    /\ UNCHANGED <<loc, calls, result, thread, env, memory, nextSession, stubs>>

(* ------------------------- ask_youtube_question ------------------------ *)

TranscriptCall(video_id) == CallRec("transcript", 0, <<>>, video_id, NoParams)

\* ask_youtube_question from its start to the first blocking call: the
\* resolution of a URL, then get_transcript_text or scrap_videos, both
\* synchronous calls that keep the thread while they wait
YtBegin(i) ==
    /\ pc[i] = "called" /\ tool[i] = "ask_youtube_question" /\ thread = 0
    /\ IF StartsWith(args[i].url, Http)
       THEN LET video_id == extract_video_id(args[i].url)
            IN IF video_id = None
               THEN /\ Finish(i, Returned(<<"[!]", " ", "Could not extract video ID from URL.">>))
                    /\ UNCHANGED <<loc, calls>>
               ELSE /\ loc' = [loc EXCEPT ![i].video_id = video_id]
                    /\ calls' = [calls EXCEPT ![i] = Append(@, TranscriptCall(video_id))]
                    /\ pc' = [pc EXCEPT ![i] = "transcript_io"]
                    /\ thread' = i
                    /\ UNCHANGED result
       ELSE /\ calls' = [calls EXCEPT ![i] =
                            Append(@, CallRec("search", 0, <<>>, args[i].url, NoParams))]
            /\ pc' = [pc EXCEPT ![i] = "search_io"]
            /\ thread' = i
            /\ UNCHANGED <<loc, result>>
    /\ UNCHANGED <<tool, args, env, memory, nextSession, stubs>>

\* ydl.extract_info comes back; on a result, get_transcript_text is called
YtSearched(i) ==
    /\ pc[i] = "search_io" /\ thread = i
    /\ \E o \in SearchStub(stubs) :
          IF o.kind = "threw"
          THEN /\ Finish(i, Raised(o.reason))
               /\ loc' = [loc EXCEPT ![i].searched = o, ![i].fault = "search"]
               /\ UNCHANGED calls
          ELSE LET videos == scrap_videos(o)
               IN IF videos = <<>>
                  THEN /\ Finish(i, Returned(<<"[!]", " ", "No video found.">>))
                       /\ loc' = [loc EXCEPT ![i].searched = o]
                       /\ UNCHANGED calls
                  ELSE /\ loc' = [loc EXCEPT ![i].searched = o,
                                             ![i].video_id = videos[1].video_id]
                       /\ calls' = [calls EXCEPT ![i] =
                                       Append(@, TranscriptCall(videos[1].video_id))]
                       /\ pc' = [pc EXCEPT ![i] = "transcript_io"]
                       /\ UNCHANGED <<result, thread>>
    /\ UNCHANGED <<tool, args, env, memory, nextSession, stubs>>

\* YouTubeTranscriptApi.get_transcript comes back; the transcript is tested
\* for the marker, then get_llm_chain opens a session and awaits the first turn
YtTranscript(i) ==
    /\ pc[i] = "transcript_io" /\ thread = i
    /\ \E o \in TranscriptStub(stubs) :
          LET transcript == get_transcript_text(o)
              fault == IF o.kind = "threw" THEN "transcript" ELSE "none"
          IN IF StartsWith(transcript, MarkerToken)
             THEN /\ loc' = [loc EXCEPT ![i].fetched = o, ![i].transcript = transcript,
                                        ![i].fault = fault]
                  /\ Finish(i, Returned(transcript))
                  /\ UNCHANGED <<calls, nextSession>>
             ELSE /\ loc' = [loc EXCEPT ![i].fetched = o, ![i].transcript = transcript,
                                        ![i].fault = fault, ![i].session = nextSession]
                  /\ calls' = [calls EXCEPT ![i] =
                                  Append(@, CallRec("llm", nextSession, <<>>,
                                                    PrimingInput(transcript), NoParams))]
                  /\ nextSession' = nextSession + 1
                  /\ pc' = [pc EXCEPT ![i] = "await_prime"]
                  /\ thread' = 0
                  /\ UNCHANGED result
    /\ UNCHANGED <<tool, args, env, memory, stubs>>

\* the first turn's answer arrives: the chain's memory keeps the turn,
\* get_llm_chain returns the chain, and the question is sent as a second turn
YtPrimed(i) ==
    /\ pc[i] = "await_prime" /\ thread = 0
    /\ \E o \in ModelStub(stubs) :
          IF o.kind = "threw"
          THEN /\ Finish(i, Raised(o.reason))
               /\ loc' = [loc EXCEPT ![i].fault = "llm"]
               /\ UNCHANGED <<calls, memory>>
          ELSE LET turns == Append(memory[i],
                                   [input |-> PrimingInput(loc[i].transcript),
                                    output |-> o.text])
               IN /\ memory' = [memory EXCEPT ![i] = turns]
                  /\ calls' = [calls EXCEPT ![i] =
                                  Append(@, CallRec("llm", loc[i].session, turns,
                                                    args[i].question, NoParams))]
                  /\ pc' = [pc EXCEPT ![i] = "await_ask"]
                  /\ UNCHANGED <<loc, result, thread>>
    /\ UNCHANGED <<tool, args, env, nextSession, stubs>>

\* ask_youtube_question returning the answer to the priming turn
YtAnswerStale(turns) == turns[1].output

\* the value ask_youtube_question returns once the second turn is answered
YtAnswer(turns) == turns[Len(turns)].output

\* the second turn's answer arrives and is returned
YtAnswered(i) ==
    /\ pc[i] = "await_ask" /\ thread = 0
    /\ \E o \in ModelStub(stubs) :
          IF o.kind = "threw"
          THEN /\ Finish(i, Raised(o.reason))
               /\ loc' = [loc EXCEPT ![i].fault = "llm"]
               /\ UNCHANGED memory
          ELSE LET turns == Append(memory[i],
                                   [input |-> args[i].question, output |-> o.text])
               IN /\ memory' = [memory EXCEPT ![i] = turns]
                  /\ Finish(i, Returned(YtAnswer(turns)))
                  /\ UNCHANGED loc
    /\ UNCHANGED <<tool, args, calls, env, nextSession, stubs>>

(* ---------------------------- analyze_website -------------------------- *)

\* analyze_website awaits the scrape
WebBegin(i) ==
    /\ pc[i] = "called" /\ tool[i] = "analyze_website" /\ thread = 0
    /\ calls' = [calls EXCEPT ![i] =
                    Append(@, CallRec("scrape", 0, <<>>, args[i].url, NoParams))]
    /\ pc' = [pc EXCEPT ![i] = "await_scrape"]
    /\ UNCHANGED <<tool, args, loc, result, thread, env, memory, nextSession, stubs>>

\* the scrape comes back; the prompt is built and the chain is awaited
WebScraped(i) ==
    /\ pc[i] = "await_scrape" /\ thread = 0
    /\ \E o \in ScrapeStub(stubs) :
          IF o.kind = "threw"
          THEN /\ Finish(i, Raised(o.reason))
               /\ loc' = [loc EXCEPT ![i].fault = "scrape"]
               /\ UNCHANGED calls
          ELSE /\ calls' = [calls EXCEPT ![i] =
                               Append(@, CallRec("llm", 0, <<>>,
                                                 WebsitePrompt(o.text, args[i].question),
                                                 NoParams))]
               /\ pc' = [pc EXCEPT ![i] = "await_llm"]
               /\ UNCHANGED <<loc, result, thread>>
    /\ UNCHANGED <<tool, args, env, memory, nextSession, stubs>>

\* the chain's answer arrives and is returned
WebAnswered(i) ==
    /\ pc[i] = "await_llm" /\ thread = 0
    /\ \E o \in ModelStub(stubs) :
          IF o.kind = "threw"
          THEN /\ Finish(i, Raised(o.reason))
               /\ loc' = [loc EXCEPT ![i].fault = "llm"]
          ELSE /\ Finish(i, Returned(o.text))
               /\ UNCHANGED loc
    /\ UNCHANGED <<tool, args, calls, env, memory, nextSession, stubs>>

(* ---------------------------- analyze_linkedin ------------------------- *)

\* analyze_linkedin up to the hand-off of requests.get to the executor
LiBegin(i) ==
    /\ pc[i] = "called" /\ tool[i] = "analyze_linkedin" /\ thread = 0
    /\ LET r == LinkedinResolve(args[i].url, env.SCRAPINGDOG_API_KEY)
       IN IF r.kind = "return"
          THEN /\ Finish(i, Returned(r.value))
               /\ UNCHANGED <<loc, calls>>
          ELSE /\ loc' = [loc EXCEPT ![i].params = r.params]
               /\ calls' = [calls EXCEPT ![i] =
                               Append(@, CallRec("http", 0, <<>>,
                                                 <<"https://api.scrapingdog.com/linkedin">>,
                                                 r.params))]
               /\ pc' = [pc EXCEPT ![i] = "await_http"]
               /\ UNCHANGED <<result, thread>>
    /\ UNCHANGED <<tool, args, env, memory, nextSession, stubs>>

\* the executor's future completes: requests.get raised or answered
LiResponse(i) ==
    /\ pc[i] = "await_http" /\ thread = 0
    /\ \E o \in HttpStub(stubs) :
          IF o.kind = "threw"
          THEN /\ Finish(i, Raised(o.reason))
               /\ loc' = [loc EXCEPT ![i].http = o, ![i].fault = "http"]
          ELSE /\ Finish(i, LinkedinAnswer(o))
               /\ loc' = [loc EXCEPT ![i].http = o,
                                     ![i].fault = IF LinkedinAnswer(o).kind = "raise"
                                                  THEN "json" ELSE "none"]
    /\ UNCHANGED <<tool, args, calls, env, memory, nextSession, stubs>>

(* ----------------------------- structured_tool ------------------------- *)

\* structured_tool awaits the chain, inside its try block
StructBegin(i) ==
    /\ pc[i] = "called" /\ tool[i] = "structured_tool" /\ thread = 0
    /\ calls' = [calls EXCEPT ![i] =
                    Append(@, CallRec("llm", 0, <<>>, StructuredPrompt(args[i].url),
                                      NoParams))]
    /\ pc' = [pc EXCEPT ![i] = "await_structured"]
    /\ UNCHANGED <<tool, args, loc, result, thread, env, memory, nextSession, stubs>>

\* the answer arrives and is returned, or the except clause turns the
\* exception into a string
StructAnswered(i) ==
    /\ pc[i] = "await_structured" /\ thread = 0
    /\ \E o \in ModelStub(stubs) :
          IF o.kind = "threw"
          THEN /\ Finish(i, Returned(<<"Error processing data: ">> \o o.reason))
               /\ loc' = [loc EXCEPT ![i].fault = "llm"]
          ELSE /\ Finish(i, Returned(o.text))
               /\ UNCHANGED loc
    /\ UNCHANGED <<tool, args, calls, env, memory, nextSession, stubs>>

(* ----------------------------- specifications -------------------------- *)

Step(i) ==
    \/ YtBegin(i) \/ YtSearched(i) \/ YtTranscript(i) \/ YtPrimed(i) \/ YtAnswered(i)
    \/ WebBegin(i) \/ WebScraped(i) \/ WebAnswered(i)
    \/ LiBegin(i) \/ LiResponse(i)
    \/ StructBegin(i) \/ StructAnswered(i)

Next == \E i \in Tasks : Call(i) \/ Step(i)

\* one invocation at a time, over the wide input sets
Spec == Init /\ [][Next]_vars

\* the arguments of the invocations that run side by side on the event loop
LoopArgsOf(t) ==
    CASE t = "analyze_website" ->
            {[url |-> u, question |-> <<"What is this about?">>] : u \in PageUrls}
      [] t = "ask_youtube_question" ->
            {[url |-> u, question |-> <<"What is this about?">>] :
                u \in {SchemeHttps \o HostShort \o FormBare \o IdRick, QueryCats}}
      [] t = "analyze_linkedin" ->
            {[url |-> <<"https:", "/", "/", "linkedin.com", "/", "company", "/", "acme">>,
              question |-> <<>>]}
      [] t = "structured_tool" ->
            {[url |-> <<"Acme sells anvils.">>, question |-> <<>>]}

\* a tool call arrives at any time: the server takes calls concurrently
CallLoop(i) ==
    /\ pc[i] = "idle"
    /\ \E t \in Tools : \E a \in LoopArgsOf(t) :
          /\ tool' = [tool EXCEPT ![i] = t]
          /\ args' = [args EXCEPT ![i] = a]
    /\ pc' = [pc EXCEPT ![i] = "called"]
    /\ UNCHANGED <<loc, calls, result, thread, env, memory, nextSession, stubs>>

NextLoop == \E i \in Tasks : CallLoop(i) \/ Step(i)

\* several invocations served concurrently on the one event-loop thread
SpecLoop == InitLoop /\ [][NextLoop]_vars

(* -------------------------------- claims ------------------------------- *)

YT == "ask_youtube_question"
LI == "analyze_linkedin"

\* the model-provider calls invocation i made, in order
LlmCalls(i) == SelectSeq(calls[i], LAMBDA c : c.provider = "llm")

\* the positions of invocation i's calls to a provider
CallsTo(i, provider) == {k \in 1..Len(calls[i]) : calls[i][k].provider = provider}

\* text t occurs in text s as a contiguous run
Contains(s, t) == \E k \in 0..(Len(s) - Len(t)) : SubSeq(s, k + 1, k + Len(t)) = t

\* C1: every tool operation ends by returning a string, whatever its inputs
\* and whatever its providers do, a provider call that throws included: no
\* exception leaves a tool.
C1_ToolsNeverRaise ==
    \A i \in Tasks : pc[i] = "done" => result[i].kind = "return"

\* the primary transcript strategy threw or returned an empty list
PrimaryFailed(i) ==
    \/ loc[i].fetched.kind = "threw"
    \/ loc[i].fetched.kind = "list" /\ loc[i].fetched.frags = <<>>

\* C2: whenever the primary transcript strategy throws or returns an empty
\* list, the caption-search fallback is attempted before a failure is
\* reported (and a failure of both is reported with both reasons).
C2_FallbackAttempted ==
    \A i \in Tasks :
        tool[i] = YT /\ PrimaryFailed(i) => CallsTo(i, "captions") # {}

\* every fragment the transcript provider returned is blank, so the text
\* retrieved is empty once trimmed
BlankContent(i) ==
    /\ loc[i].fetched.kind = "list"
    /\ \A k \in 1..Len(loc[i].fetched.frags) :
          \A n \in 1..Len(FragGet(loc[i].fetched.frags[k])) :
              IsSpace(FragGet(loc[i].fetched.frags[k])[n])

\* C3: a retrieval whose text is empty after trimming is a failure: the
\* analysis step is not run on it and the invocation reports a failure.
C3_EmptyContentIsFailure ==
    \A i \in Tasks :
        tool[i] = YT /\ BlankContent(i) =>
            /\ LlmCalls(i) = <<>>
            /\ pc[i] = "done" /\ result[i].kind = "return"
            /\ StartsWith(result[i].value, MarkerToken)

\* C5: after a resolved link, a response with status 200 yields a success
\* result carrying the payload, and a response with any other status yields
\* exactly "Error <code>: <body>".
C5_HttpOutcomeStrings ==
    \A i \in Tasks :
        tool[i] = LI /\ pc[i] = "done" /\ loc[i].http.kind = "response" =>
            IF loc[i].http.status = 200
            THEN result[i].kind = "return" =>
                     \/ Contains(result[i].value, loc[i].http.body.text)
                     \/ loc[i].http.body.is_json
                          /\ Contains(result[i].value, loc[i].http.body.repr)
            ELSE result[i] = Returned(<<"Error ", ToString(loc[i].http.status), ": ">>
                                          \o loc[i].http.body.text)

\* C6: for every well-formed video URL built around an 11-character id
\* token, the id the invocation resolves is exactly that token.
C6_ExtractsTheIdToken ==
    \A i \in Tasks :
        tool[i] = YT /\ pc[i] \notin {"idle", "called"} =>
            \A c \in VideoUrlCases : args[i].url = c.url => loc[i].video_id = c.id

\* an invocation waits on I/O: a request of its own is in flight
WaitingOnIO(i) ==
    pc[i] \in {"search_io", "transcript_io", "await_prime", "await_ask", "await_scrape",
               "await_llm", "await_http", "await_structured"}

\* an invocation is ready: it was called and waits for nothing but the thread
Ready(i) == pc[i] = "called"

\* C8: no invocation blocks another: while one invocation waits on I/O, any
\* other ready invocation can take a step.
C8_NoInvocationBlocksAnother ==
    \A i \in Tasks : \A j \in Tasks \ {i} :
        WaitingOnIO(i) /\ Ready(j) => ENABLED Step(j)

\* a tool result that carries the failure marker: "[!] " and a reason, or
\* the "Error <code>: <body>" form
HasMarker(v) ==
    \/ StartsWith(v, <<"[!]", " ">>)
    \/ Len(v) >= 3 /\ v[1] = "Error " /\ v[3] = ": "

\* resolution, retrieval or analysis failed in invocation i
Failed(i) ==
    \/ loc[i].fault # "none"
    \/ tool[i] = YT /\ (CallsTo(i, "transcript") = {} \/ PrimaryFailed(i) \/ BlankContent(i))
    \/ tool[i] = LI /\ (CallsTo(i, "http") = {} \/ loc[i].http.status # 200)

\* C9: a tool result starts with the failure marker if and only if
\* resolution, retrieval or analysis failed in that invocation.
C9_MarkerIffFailure ==
    \A i \in Tasks :
        pc[i] = "done" /\ result[i].kind = "return" =>
            (Failed(i) <=> HasMarker(result[i].value))

(* ---- C4: analyze_linkedin resolves a link by its path ---- *)

LinkHost == <<"https:", "/", "/", "linkedin.com">>

\* absolute links, each with the path it was built from: the host, a path
\* that is empty or starts with "/", then possibly a query
LinkCases ==
    {[link |-> LinkHost \o q \o r, path |-> q] :
        q \in {q \in SeqUpTo(PathChunks, MaxPathLen) : q = <<>> \/ q[1] = "/"},
        r \in LinkSuffixes}

\* the segments of a path: its maximal runs without a "/"
RECURSIVE Runs(_)
Runs(s) ==
    IF s = <<>> THEN <<>>
    ELSE IF Head(s) = "/" THEN Runs(Tail(s))
    ELSE LET r == UpTo(s, {"/"})
         IN <<r>> \o Runs(SubSeq(s, Len(r) + 1, Len(s)))

\* path is /<type>/<id> or /<type>/<id>/...: single slashes before both
PlainTypedPath(path) ==
    /\ Len(path) >= 4
    /\ path[1] = "/" /\ path[2] # "/" /\ path[3] = "/" /\ path[4] # "/"

\* invocation i sent exactly one request, of this type, for the path's id
Requested(i, type, private, path) ==
    /\ Len(calls[i]) = 1
    /\ calls[i][1].provider = "http"
    /\ calls[i][1].params.api_key = env.SCRAPINGDOG_API_KEY
    /\ calls[i][1].params.type = type
    /\ calls[i][1].params.private = private
    /\ PlainTypedPath(path) => calls[i][1].params.linkId = Runs(path)[2]

\* invocation i failed with this message and sent no request
Refused(i, message) == result[i] = Returned(<<message>>) /\ calls[i] = <<>>

\* the outcome of resolution the path alone calls for
ResolvedByPath(i, path) ==
    LET runs == Runs(path)
    IN IF Len(runs) < 2 THEN Refused(i, "Invalid LinkedIn URL.")
       ELSE IF runs[1] = <<"company">> THEN Requested(i, "company", "false", path)
       ELSE IF runs[1] = <<"in">> THEN Requested(i, "profile", "true", path)
       ELSE Refused(i, "Unsupported LinkedIn link type.")

\* C4 as stated: for every link, resolution is decided by the URL path
\* alone: /company/<id> is requested as type company with private=false and
\* linkId=<id>, /in/<id> as type profile with private=true and linkId=<id>,
\* another first segment fails as unsupported, fewer than two segments fail
\* as malformed, and the two failures send no request.
C4_PathAloneDecides ==
    \A i \in Tasks :
        tool[i] = LI /\ pc[i] \notin {"idle", "called"} =>
            \A c \in LinkCases : args[i].url = c.link => ResolvedByPath(i, c.path)

\* C4, amended: when SCRAPINGDOG_API_KEY is set, resolution is decided by
\* the URL path alone, as above; when it is not set, every link fails with
\* the missing-key message and no request is sent.
C4_PathDecidesWhenKeySet ==
    \A i \in Tasks :
        tool[i] = LI /\ pc[i] \notin {"idle", "called"} =>
            \A c \in LinkCases :
                args[i].url = c.link =>
                    IF env.SCRAPINGDOG_API_KEY = <<>>
                    THEN Refused(i, "API key not found. Please check your .env file.")
                    ELSE ResolvedByPath(i, c.path)

C4_Witness ==
    \E i \in Tasks :
        /\ tool[i] = LI /\ pc[i] = "done"
        /\ args[i].url = LinkHost \o <<"/", "company", "/", "acme">>
        /\ env.SCRAPINGDOG_API_KEY # <<>>
        /\ Len(calls[i]) = 1 /\ calls[i][1].params.linkId = <<"acme">>

(* ---- C7: the two turns of ask_youtube_question ---- *)

\* the retrieval of invocation i succeeded: the transcript came back and
\* passed the test for the marker
Retrieved(i) ==
    /\ pc[i] \in {"await_prime", "await_ask", "done"}
    /\ loc[i].fetched.kind = "list"
    /\ ~StartsWith(loc[i].transcript, MarkerToken)

====
